---- MODULE Spec2Model ----
(***************************************************************************)
(* include-shader: the dependency graph (src/src/dependency_graph.rs) and  *)
(* the include resolver (src/src/lib.rs).                                  *)
(*                                                                         *)
(* The graph is a HashMap<String, HashSet<String>>.  A key is inserted     *)
(* only together with a first child (add_edge), and nothing is ever        *)
(* removed, so a key is present exactly when its child set is non-empty:   *)
(* the map is modelled as a total function to sets of children, an empty   *)
(* set standing for an absent key.  The iteration order of the map's keys  *)
(* and of every child set is unspecified; each call of find_cycle draws    *)
(* one order of the keys and one order per child set, and both traversals  *)
(* (depth first, breadth first) of that call use them.                     *)
(*                                                                         *)
(* The resolver is the call chain include_shader -> process_file ->        *)
(* process_includes -> process_file ...; its recursion is kept as a stack  *)
(* of frames.  Texts are sequences of tokens on which the include pattern  *)
(* is matched as the regex engine matches it.  Storage (read_to_string) is *)
(* an input: a document's content is drawn when the run first reads it and *)
(* stays the same for the rest of the run.  The default build is modelled: *)
(* paths resolve the same way from every document and track_file does      *)
(* nothing.                                                                *)
(***************************************************************************)
EXTENDS Integers, Sequences, FiniteSets, TLC

\* Document identifiers (canonical paths), the vertices of the graph.
Names == <<"A", "B", "C", "D">>
Vertices == {Names[i] : i \in 1..Len(Names)}

\* Bound: the largest number of distinct edges a graph of SpecGraph holds.
MaxEdges == 4

\* Option::None of a vertex-valued map lookup.
Nil == "-"

\* Option::None of find_back_edge / dfs_visit.
NoEdge == <<>>

\* The least and the greatest element of a non-empty set of numbers.
Least(S) == CHOOSE n \in S : \A m \in S : n <= m
Greatest(S) == CHOOSE n \in S : \A m \in S : n >= m

-----------------------------------------------------------------------------
(* Iteration orders *)

\* All orders in which a set can be iterated.
Perms(S) ==
    {s \in [1..Cardinality(S) -> S] : \A i, j \in 1..Cardinality(S) : s[i] = s[j] => i = j}

RECURSIVE ChildOrdersOver(_, _)
\* All assignments of one iteration order to the child set of every vertex of V.
ChildOrdersOver(g, V) ==
    IF V = {} THEN {<<>>}
    ELSE LET v == CHOOSE x \in V : TRUE
         IN  {(v :> p) @@ f : p \in Perms(g[v]), f \in ChildOrdersOver(g, V \ {v})}

\* HashMap::keys of the graph: the vertices with at least one child.
Keys(g) == {v \in Vertices : g[v] # {}}

\* The edges of the graph as pairs.
Edges(g) == {e \in Vertices \X Vertices : e[2] \in g[e[1]]}

\* DependencyGraph::new.
EmptyGraph == [v \in Vertices |-> {}]

-----------------------------------------------------------------------------
(* DependencyGraph *)

\* A plausible slip: the entry of a is overwritten instead of extended.
add_edge_overwrite(g, a, b) == [g EXCEPT ![a] = {b}]

\* add_edge: insert b in the child set of a, creating the entry if absent.
add_edge(g, a, b) ==
    IF g[a] # {} THEN [g EXCEPT ![a] = @ \cup {b}]
    ELSE [g EXCEPT ![a] = {b}]

\* The traversal state of find_back_edge: the two sets of the code, the
\* chain of active dfs_visit calls, and the result so far.
DfsInit == [discovered |-> {}, finished |-> {}, stack |-> <<>>, edge |-> NoEdge]

\* dfs_visit entry: discovered.insert(vertex).
MarkDiscovered(st, vertex) ==
    [st EXCEPT !.discovered = @ \cup {vertex}, !.stack = Append(@, vertex)]

\* A plausible slip: the vertex stays in discovered when it is finished.
MarkFinishedKeep(st, vertex) ==
    [st EXCEPT !.finished = @ \cup {vertex},
               !.stack = SubSeq(@, 1, Len(@) - 1)]

\* dfs_visit exit: discovered.remove(vertex); finished.insert(vertex).
MarkFinished(st, vertex) ==
    [st EXCEPT !.discovered = @ \ {vertex},
               !.finished = @ \cup {vertex},
               !.stack = SubSeq(@, 1, Len(@) - 1)]

\* dfs_visit: the child is on the recursion stack.
IsBackEdge(st, vertex, child) == child \in st.discovered

\* A plausible slip: every vertex that was ever finished is skipped, and so
\* is every vertex after the first start.
SkipStartAfterFirst(st, vertex) == st.finished # {}

\* find_back_edge: the start vertices the loop skips.
SkipStart(st, vertex) == vertex \in st.discovered /\ vertex \in st.finished

RECURSIVE dfs_visit(_, _, _, _)
RECURSIVE DfsChildren(_, _, _, _, _)
\* dfs_visit's loop over the children of vertex, from the i-th on.
DfsChildren(g, co, vertex, i, st) ==
    IF i > Len(co[vertex]) THEN MarkFinished(st, vertex)
    ELSE LET child == co[vertex][i]
         IN  IF IsBackEdge(st, vertex, child)
             THEN [st EXCEPT !.edge = <<child, vertex>>]
             ELSE IF child \notin st.finished
                  THEN LET r == dfs_visit(g, co, child, st)
                       IN  IF r.edge # NoEdge THEN r
                           ELSE DfsChildren(g, co, vertex, i + 1, r)
                  ELSE DfsChildren(g, co, vertex, i + 1, st)

\* dfs_visit: the first back edge found from vertex, else vertex is finished.
dfs_visit(g, co, vertex, st) ==
    DfsChildren(g, co, vertex, 1, MarkDiscovered(st, vertex))

RECURSIVE FindBackEdgeFrom(_, _, _, _, _)
\* find_back_edge's loop over the keys, from the i-th on.
FindBackEdgeFrom(g, ko, co, i, st) ==
    IF i > Len(ko) THEN st
    ELSE IF SkipStart(st, ko[i]) THEN FindBackEdgeFrom(g, ko, co, i + 1, st)
    ELSE LET r == dfs_visit(g, co, ko[i], st)
         IN  IF r.edge # NoEdge THEN r
             ELSE FindBackEdgeFrom(g, ko, co, i + 1, r)

\* find_back_edge: the traversal state at return; .edge is the result.
find_back_edge(g, ko, co) == FindBackEdgeFrom(g, ko, co, 1, DfsInit)

\* The predecessor map of find_shortest_path, initially empty.
NoPredecessors == [v \in Vertices |-> Nil]

RECURSIVE BfsLoop(_, _, _, _, _, _)
RECURSIVE BfsChildren(_, _, _, _, _, _, _, _)
\* A plausible slip: the search goes on from a child as soon as it is
\* discovered, the vertex waiting behind it (depth first).
BfsChildrenDepthFirst(g, co, end, vertex, i, queue, visited, pred) ==
    IF i > Len(co[vertex]) THEN BfsLoop(g, co, end, queue, visited, pred)
    ELSE LET child == co[vertex][i]
         IN  IF child \in visited
             THEN BfsChildren(g, co, end, vertex, i + 1, queue, visited, pred)
             ELSE LET p == [pred EXCEPT ![child] = vertex]
                  IN  IF child = end THEN [found |-> TRUE, pred |-> p]
                      ELSE BfsLoop(g, co, end, <<child, vertex>> \o queue,
                                   visited \cup {child}, p)

\* find_shortest_path's loop over the children of vertex, from the i-th on.
BfsChildren(g, co, end, vertex, i, queue, visited, pred) ==
    IF i > Len(co[vertex]) THEN BfsLoop(g, co, end, queue, visited, pred)
    ELSE LET child == co[vertex][i]
         IN  IF child \in visited
             THEN BfsChildren(g, co, end, vertex, i + 1, queue, visited, pred)
             ELSE LET p == [pred EXCEPT ![child] = vertex]
                  IN  IF child = end THEN [found |-> TRUE, pred |-> p]
                      ELSE BfsChildren(g, co, end, vertex, i + 1,
                                       Append(queue, child), visited \cup {child}, p)

\* A plausible slip: the vertex popped from the queue is not compared to end.
PoppedEndIgnored(vertex, end) == FALSE

\* find_shortest_path: the vertex popped from the queue is the end.
PoppedEnd(vertex, end) == vertex = end

\* find_shortest_path's while loop.
BfsLoop(g, co, end, queue, visited, pred) ==
    IF queue = <<>> THEN [found |-> FALSE, pred |-> pred]
    ELSE LET vertex == Head(queue)
         IN  IF PoppedEnd(vertex, end) THEN [found |-> TRUE, pred |-> pred]
             ELSE BfsChildren(g, co, end, vertex, 1, Tail(queue), visited, pred)

\* find_shortest_path: breadth-first search from start until end is met.
find_shortest_path(g, co, start, end) ==
    BfsLoop(g, co, end, <<start>>, {start}, NoPredecessors)

\* Vec::reverse.
Reverse(s) == [i \in 1..Len(s) |-> s[Len(s) + 1 - i]]

RECURSIVE Crawl(_, _, _)
\* reconstruct_cycle_path's while loop: follow the predecessors of crawl.
Crawl(pred, crawl, path) ==
    IF pred[crawl] = Nil THEN path
    ELSE Crawl(pred, pred[crawl], Append(path, pred[crawl]))

\* A plausible slip: the start is not pushed again at the end.
reconstruct_open_path(start, end, pred) == Reverse(Crawl(pred, end, <<end>>))

\* reconstruct_cycle_path: end back to start, reversed, start pushed again.
reconstruct_cycle_path(start, end, pred) ==
    Append(Reverse(Crawl(pred, end, <<end>>)), start)

\* A plausible slip: the search runs from the current vertex to the ancestor.
ShortestPathOfEdgeSwapped(g, co, edge) == find_shortest_path(g, co, edge[2], edge[1])

\* find_cycle: the search from the ancestor (edge.0) to the current vertex (edge.1).
ShortestPathOfEdge(g, co, edge) == find_shortest_path(g, co, edge[1], edge[2])

\* find_cycle under the key order ko and the child orders co.  kind is
\* "None", "Some" (with path) or "Panic" (the unwrap of a failed search);
\* edge and stack are the back edge and the recursion stack it was found on.
find_cycle(g, ko, co) ==
    LET dfs == find_back_edge(g, ko, co)
    IN  IF dfs.edge = NoEdge
        THEN [kind |-> "None", path |-> <<>>, edge |-> NoEdge, stack |-> <<>>]
        ELSE LET sp == ShortestPathOfEdge(g, co, dfs.edge)
             IN  IF ~sp.found
                 THEN [kind |-> "Panic", path |-> <<>>, edge |-> dfs.edge,
                       stack |-> dfs.stack]
                 ELSE [kind |-> "Some",
                       path |-> reconstruct_cycle_path(dfs.edge[1], dfs.edge[2], sp.pred),
                       edge |-> dfs.edge, stack |-> dfs.stack]

\* Every result find_cycle can return on g, over all iteration orders.
FindCycleResults(g) ==
    {find_cycle(g, ko, co) : ko \in Perms(Keys(g)), co \in ChildOrdersOver(g, Vertices)}

-----------------------------------------------------------------------------
(* Text *)

(* A text is a sequence of tokens: the keyword "#include", a blank, a line  *)
(* break, a double quote, or any other character.  The other characters are *)
(* the names of the documents (a path is one name; "x" names no existing    *)
(* file) and one letter of plain text per document.                         *)
INC == "#include"
SP == " "
NL == "\n"
QT == "\""
BadName == "x"
Letter == [d \in Vertices |->
              CASE d = "A" -> "a" [] d = "B" -> "b" [] d = "C" -> "c" [] OTHER -> "d"]

\* \s of the pattern.
IsSpace(t) == t \in {SP, NL}

\* Regex::captures found nothing.
NoMatch == [start |-> 0, end |-> 0, file |-> <<>>]

\* A plausible slip: the pattern asks for no quoted path after the keyword.
MatchKeywordOnly(text, i) ==
    IF text[i] = INC THEN [start |-> i, end |-> i, file |-> <<>>] ELSE NoMatch

\* The match of #include\s+"(?P<file>.*)" that starts at position i: the
\* keyword, one or more blanks or line breaks, a quote, and the longest run
\* without a line break that ends in a quote.
MatchAt(text, i) ==
    LET n == Len(text)
        j == Least({k \in (i + 1)..(n + 1) : k = n + 1 \/ ~IsSpace(text[k])})
    IN  IF text[i] # INC \/ j = i + 1 \/ j > n THEN NoMatch
        ELSE IF text[j] # QT THEN NoMatch
        ELSE LET eol == Least({k \in (j + 1)..(n + 1) : k = n + 1 \/ text[k] = NL})
                 closing == {e \in (j + 1)..(eol - 1) : text[e] = QT}
             IN  IF closing = {} THEN NoMatch
                 ELSE [start |-> i, end |-> Greatest(closing),
                       file |-> SubSeq(text, j + 1, Greatest(closing) - 1)]

\* INCLUDE_RE.captures: the leftmost match.
Captures(text) ==
    LET starts == {i \in 1..Len(text) : MatchAt(text, i) # NoMatch}
    IN  IF starts = {} THEN NoMatch ELSE MatchAt(text, Least(starts))

\* A plausible slip: the range stops one short and the closing quote stays.
ReplaceRangeShort(s, start, end, t) ==
    SubSeq(s, 1, start - 1) \o t \o SubSeq(s, end, Len(s))

\* String::replace_range(start..end, t), the range given by its first and
\* last position.
ReplaceRange(s, start, end, t) ==
    SubSeq(s, 1, start - 1) \o t \o SubSeq(s, end + 1, Len(s))

\* A plausible slip: a path that cannot be canonicalized falls back to the
\* first document instead of failing.
resolve_path_or_first(file) ==
    IF Len(file) = 1 /\ file[1] \in Vertices THEN file[1] ELSE Names[1]

\* resolve_path: the canonical identifier of the literal path, Nil where
\* canonicalize fails (the panic).  A path names a document by its name.
resolve_path(file) ==
    IF Len(file) = 1 /\ file[1] \in Vertices THEN file[1] ELSE Nil

-----------------------------------------------------------------------------
(* The documents the storage may hold *)

\* Bounds: the lines of one document, and over all documents read in one
\* run the lines that are include directives, the other lines, and all lines.
MaxLines == 2
MaxIncludes == 4
MaxStray == 2
MaxTotal == 5

\* The lines a document d is made of: a letter of text, a directive, the
\* bare keyword, a quoted name.
Lines ==
    {[k |-> "T", t |-> Nil], [k |-> "K", t |-> Nil]}
    \cup {[k |-> "I", t |-> t] : t \in Vertices \cup {BadName}}
    \cup {[k |-> "Q", t |-> t] : t \in Vertices \cup {BadName}}

LineTokens(l, d) ==
    CASE l.k = "T" -> <<Letter[d]>>
      [] l.k = "K" -> <<INC>>
      [] l.k = "I" -> <<INC, SP, QT, l.t, QT>>
      [] OTHER -> <<QT, l.t, QT>>

RECURSIVE Render(_, _)
\* The text of the lines ls of document d, joined by line breaks.
Render(ls, d) ==
    IF ls = <<>> THEN <<>>
    ELSE IF Len(ls) = 1 THEN LineTokens(ls[1], d)
    ELSE LineTokens(ls[1], d) \o <<NL>> \o Render(Tail(ls), d)

\* The number of directive lines of ls.
IncludesOf(ls) == Cardinality({i \in 1..Len(ls) : ls[i].k = "I"})

\* Documents are interchangeable but for their names, so storage is taken
\* to name them in the order in which the run first meets their names:
\* a line names a document already named, or the first one not yet named.
FirstUnnamed(named) ==
    LET rest == {i \in 1..Len(Names) : Names[i] \notin named}
    IN  IF rest = {} THEN {} ELSE {Names[Least(rest)]}

RECURSIVE NamedInOrder(_, _)
NamedInOrder(ls, named) ==
    \/ ls = <<>>
    \/ /\ ls[1].t \in {Nil, BadName} \cup named \cup FirstUnnamed(named)
       /\ NamedInOrder(Tail(ls), IF ls[1].t \in Vertices THEN named \cup {ls[1].t}
                                  ELSE named)

\* What a first read of document d can find in storage: an unreadable
\* file, or a text within what the bounds leave to the run.
Unknown == [state |-> "unknown", text |-> <<>>]
Unreadable == [state |-> "unreadable", text |-> <<>>]
Storage(d, quota) ==
    {[file |-> Unreadable, quota |-> quota]}
    \cup {[file |-> [state |-> "text", text |-> Render(ls, d)],
           quota |-> [inc |-> quota.inc - IncludesOf(ls),
                      stray |-> quota.stray - (Len(ls) - IncludesOf(ls)),
                      total |-> quota.total - Len(ls),
                      named |-> quota.named \cup
                                ({ls[i].t : i \in 1..Len(ls)} \cap Vertices)]] :
          ls \in {x \in UNION {[1..n -> Lines] : n \in 0..MaxLines} :
                     /\ Len(x) <= quota.total
                     /\ IncludesOf(x) <= quota.inc
                     /\ Len(x) - IncludesOf(x) <= quota.stray
                     /\ NamedInOrder(x, quota.named)}}

-----------------------------------------------------------------------------
(* State *)

\* graph:  the DependencyGraph.
\* op:     the last call on the graph (name) and, for add_edge, its
\*         arguments (a, b) and whether the edge was already present (dup).
\* ret:    the result of find_cycle, if it was called since the last add_edge.
\* fs:     what the run has read from storage so far, per document.
\* quota:  the lines storage may still reveal, and the documents named so far.
\* call:   the document process_file is about to be called on, or Nil.
\* frames: the active process_includes calls, innermost last: the document,
\*         its text so far, and the span of the directive being resolved.
\* status: "running", "done", or the panic that ended the run.
\* output: the text returned by the outermost process_file.
\* cycle:  the path of a CircularDependency panic.
VARIABLES graph, op, ret, fs, quota, call, frames, status, output, cycle

vars == <<graph, op, ret, fs, quota, call, frames, status, output, cycle>>

runVars == <<fs, quota, call, frames, status, output, cycle>>

NoOp == [name |-> "new", a |-> Nil, b |-> Nil, dup |-> FALSE]
NoRet == [kind |-> "NotCalled", path |-> <<>>, edge |-> NoEdge, stack |-> <<>>]

\* The document named by the macro's argument.
Root == "A"

\* No run: the graph is used on its own.
NoRun ==
    /\ fs = [d \in Vertices |-> Unknown]
    /\ quota = [inc |-> 0, stray |-> 0, total |-> 0, named |-> {}]
    /\ call = Nil
    /\ frames = <<>>
    /\ status = "idle"
    /\ output = <<>>
    /\ cycle = <<>>

InitGraph ==
    /\ graph = EmptyGraph
    /\ op = NoOp
    /\ ret = NoRet
    /\ NoRun

\* A caller adds the edge a -> b.
AddEdge ==
    \E a \in Vertices, b \in Vertices :
        /\ b \in graph[a] \/ Cardinality(Edges(graph)) < MaxEdges
        /\ graph' = add_edge(graph, a, b)
        /\ op' = [name |-> "add_edge", a |-> a, b |-> b, dup |-> b \in graph[a]]
        /\ ret' = NoRet
        /\ UNCHANGED runVars

\* A caller asks for a cycle; the graph is borrowed immutably.
FindCycle ==
    /\ \E r \in FindCycleResults(graph) : ret' = r
    /\ op' = [NoOp EXCEPT !.name = "find_cycle"]
    /\ UNCHANGED graph
    /\ UNCHANGED runVars

NextGraph == AddEdge \/ FindCycle

SpecGraph == InitGraph /\ [][NextGraph]_vars

-----------------------------------------------------------------------------
(* The resolver: include_shader, process_file, process_includes *)

\* include_shader after DependencyGraph::new, about to call process_file
\* on the root path.
Init ==
    /\ graph = EmptyGraph
    /\ op = NoOp
    /\ ret = NoRet
    /\ fs = [d \in Vertices |-> Unknown]
    /\ quota = [inc |-> MaxIncludes, stray |-> MaxStray, total |-> MaxTotal,
                named |-> {Root}]
    /\ call = Root
    /\ frames = <<>>
    /\ status = "running"
    /\ output = <<>>
    /\ cycle = <<>>

\* The innermost process_includes call.
Top == frames[Len(frames)]

\* process_file up to the call of process_includes: read_to_string panics,
\* or process_includes starts on the content.  Storage answers a first read
\* with any file within the bounds and every later read with the same file.
ProcessFile ==
    /\ status = "running" /\ call # Nil
    /\ \E s \in IF fs[call] = Unknown THEN Storage(call, quota)
                ELSE {[file |-> fs[call], quota |-> quota]} :
          /\ fs' = [fs EXCEPT ![call] = s.file]
          /\ quota' = s.quota
          /\ IF s.file.state = "unreadable"
             THEN /\ status' = "unreadable"
                  /\ UNCHANGED frames
             ELSE /\ frames' = Append(frames, [path |-> call, result |-> s.file.text,
                                               start |-> 0, end |-> 0])
                  /\ UNCHANGED status
    /\ call' = Nil
    /\ UNCHANGED <<graph, op, ret, output, cycle>>

\* One turn of process_includes' loop up to the call of process_file: the
\* leftmost directive is matched, its path resolved, the edge added and the
\* graph searched for a cycle.
ProcessIncludes ==
    /\ status = "running" /\ call = Nil /\ frames # <<>>
    /\ Captures(Top.result) # NoMatch
    /\ LET capture == Captures(Top.result)
           include_path == resolve_path(capture.file)
       IN  IF include_path = Nil
           THEN /\ status' = "unresolvable"
                /\ UNCHANGED <<graph, call, frames, cycle>>
           ELSE /\ graph' = add_edge(graph, Top.path, include_path)
                /\ \E r \in FindCycleResults(graph') :
                      CASE r.kind = "Some" ->
                              /\ status' = "circular"
                              /\ cycle' = r.path
                              /\ UNCHANGED <<call, frames>>
                        [] r.kind = "Panic" ->
                              /\ status' = "unwrap"
                              /\ UNCHANGED <<call, frames, cycle>>
                        [] OTHER ->
                              /\ call' = include_path
                              /\ frames' = [frames EXCEPT ![Len(frames)] =
                                               [@ EXCEPT !.start = capture.start,
                                                         !.end = capture.end]]
                              /\ UNCHANGED <<status, cycle>>
    /\ UNCHANGED <<op, ret, fs, quota, output>>

\* process_includes finds no directive and returns its text; the caller
\* replaces the directive it was resolving, or the run is done.
Return ==
    /\ status = "running" /\ call = Nil /\ frames # <<>>
    /\ Captures(Top.result) = NoMatch
    /\ IF Len(frames) = 1
       THEN /\ status' = "done"
            /\ output' = Top.result
            /\ frames' = <<>>
       ELSE /\ frames' =
                 [i \in 1..(Len(frames) - 1) |->
                     IF i < Len(frames) - 1 THEN frames[i]
                     ELSE [frames[i] EXCEPT
                              !.result = ReplaceRange(@, frames[i].start,
                                                      frames[i].end, Top.result),
                              !.start = 0, !.end = 0]]
            /\ UNCHANGED <<status, output>>
    /\ UNCHANGED <<graph, op, ret, fs, quota, call, cycle>>

Next == ProcessFile \/ ProcessIncludes \/ Return

Spec == Init /\ [][Next]_vars

\* Bounds of the runs checked for termination: the directive lines, the
\* other lines and all lines of the documents read in one run.
LiveIncludes == 2
LiveStray == 5
LiveTotal == 6

\* include_shader as in Init, over storage within these bounds.
InitLive ==
    /\ graph = EmptyGraph
    /\ op = NoOp
    /\ ret = NoRet
    /\ fs = [d \in Vertices |-> Unknown]
    /\ quota = [inc |-> LiveIncludes, stray |-> LiveStray, total |-> LiveTotal,
                named |-> {Root}]
    /\ call = Root
    /\ frames = <<>>
    /\ status = "running"
    /\ output = <<>>
    /\ cycle = <<>>

\* process_includes is at the head of its loop.
AtLoopHead == status = "running" /\ call = Nil /\ frames # <<>>

\* The loop has a turn to take (ProcessIncludes can step), or process_includes
\* can return (Return can step).  Every such step changes status, call or
\* frames, so these are the enabling conditions of the two actions.
IncludesEnabled == AtLoopHead /\ Captures(Top.result) # NoMatch
ReturnEnabled == AtLoopHead /\ Captures(Top.result) = NoMatch

\* The resolver is one thread that runs until it returns or panics: it
\* takes its next step whenever it has one.  This is weak fairness of each
\* of the three actions, the enabling conditions of two of them written out.
SpecLive ==
    /\ InitLive /\ [][Next]_vars
    /\ WF_vars(ProcessFile)
    /\ ([]<>~IncludesEnabled \/ []<><<ProcessIncludes>>_vars)
    /\ ([]<>~ReturnEnabled \/ []<><<Return>>_vars)

-----------------------------------------------------------------------------
(* Graph notions the properties are stated with *)

RECURSIVE Closure(_, _)
\* The vertices reachable from the set S by zero or more edges.
Closure(g, S) ==
    LET T == S \cup UNION {g[v] : v \in S}
    IN  IF T = S THEN S ELSE Closure(g, T)

\* The vertices reachable from v by one or more edges.
Descendants(g, v) == Closure(g, g[v])

\* g has a directed cycle.
HasCycle(g) == \E v \in Vertices : v \in Descendants(g, v)

\* g without the edge a -> b.
WithoutEdge(g, a, b) == [g EXCEPT ![a] = @ \ {b}]

RECURSIVE DistFrom(_, _, _, _, _)
\* The number of edges of a shortest path from the frontier to target, the
\* frontier being d edges away from the source; -1 if there is none.
DistFrom(g, frontier, seen, target, d) ==
    IF target \in frontier THEN d
    ELSE LET next == (UNION {g[v] : v \in frontier}) \ seen
         IN  IF next = {} THEN -1
             ELSE DistFrom(g, next, seen \cup next, target, d + 1)

\* The number of edges of a shortest directed path from a to b (0 if a = b).
Dist(g, a, b) == DistFrom(g, {a}, {a}, b, 0)

\* The entries of a sequence.
Range(s) == {s[i] : i \in 1..Len(s)}

\* The first Len - 1 entries of s are pairwise distinct.
DistinctButLast(s) == \A i, j \in 1..(Len(s) - 1) : s[i] = s[j] => i = j

\* Every consecutive pair of s is an edge of g.
PathInGraph(g, s) == \A i \in 1..(Len(s) - 1) : s[i + 1] \in g[s[i]]

\* find_cycle was called after the last insertion.
Called == ret.kind # "NotCalled"

\* The number of vertices of the recursion-stack segment from the revisited
\* ancestor to the current vertex, for a result with a back edge.
StackSegment(r) ==
    LET i == CHOOSE k \in 1..Len(r.stack) : r.stack[k] = r.edge[1]
    IN  Len(r.stack) - i + 1

\* The graphs of the unit tests.
TestAcyclic == {<<"A", "B">>, <<"B", "C">>, <<"C", "D">>, <<"A", "D">>}
TestBackEdge == {<<"A", "B">>, <<"B", "C">>, <<"C", "B">>, <<"C", "D">>}

-----------------------------------------------------------------------------
(* Properties of the dependency graph, under SpecGraph *)

\* C1: on a graph without a directed cycle (the empty graph included)
\* find_cycle returns None, under every iteration order.
C1_AcyclicReturnsNone ==
    (Called /\ ~HasCycle(graph)) => ret.kind = "None"

C1_Witness ==
    ret.kind = "None" /\ Edges(graph) = TestAcyclic

\* C2: as soon as the graph has a directed cycle, that is from the call that
\* follows the insertion of the closing edge on, find_cycle returns a path.
C2_CycleDetectedAtOnce ==
    (Called /\ HasCycle(graph)) => ret.kind = "Some"

C2_Witness ==
    /\ ret.kind = "Some"
    /\ Cardinality(Edges(graph)) >= 3
    /\ \E e \in Edges(graph) : e[1] # e[2] /\ ~HasCycle(WithoutEdge(graph, e[1], e[2]))

\* C3: a returned path has at least 2 entries, starts and ends with the same
\* vertex, follows edges of the graph and repeats no other vertex; on the
\* graph A->B, B->C, C->B, C->D it has 3 entries over exactly B and C.
C3_PathIsSimpleCycle ==
    ret.kind = "Some" =>
        /\ Len(ret.path) >= 2
        /\ ret.path[1] = ret.path[Len(ret.path)]
        /\ PathInGraph(graph, ret.path)
        /\ DistinctButLast(ret.path)
        /\ Edges(graph) = TestBackEdge =>
               Len(ret.path) = 3 /\ Range(ret.path) = {"B", "C"}

C3_Witness ==
    ret.kind = "Some" /\ Edges(graph) = TestBackEdge

\* C6 as stated: on every graph with a self-edge find_cycle returns exactly
\* the path [a, a] of a self-edge (a, a) of the graph.
C6_Original ==
    (Called /\ \E a \in Vertices : a \in graph[a]) =>
        /\ ret.kind = "Some"
        /\ \E a \in Vertices : a \in graph[a] /\ ret.path = <<a, a>>

\* C6 amended: on every graph with a self-edge find_cycle returns a path,
\* and it returns exactly [a, a] when the self-edge (a, a) is the only
\* directed cycle of the graph.
C6_SelfEdge ==
    \A a \in Vertices :
        (Called /\ a \in graph[a]) =>
            /\ ret.kind = "Some"
            /\ ~HasCycle(WithoutEdge(graph, a, a)) => ret.path = <<a, a>>

C6_Witness ==
    /\ ret.kind = "Some" /\ ret.path = <<"A", "A">>
    /\ ~HasCycle(WithoutEdge(graph, "A", "A"))
    /\ Cardinality(Edges(graph)) >= 3

\* C7 as stated: when the back edge closes a recursion-stack segment of k
\* vertices, the returned path has k + 1 entries.
C7_Original ==
    ret.kind = "Some" => Len(ret.path) = StackSegment(ret) + 1

\* C7 amended: the returned path starts at the revisited ancestor, reaches
\* the current vertex in its last but one entry, and has at most k + 1
\* entries, distinct but for the repeated start; it has exactly k + 1
\* entries when no directed path from the ancestor to the current vertex is
\* shorter than the recursion-stack segment.
C7_PathWithinStackSegment ==
    ret.kind = "Some" =>
        LET k == StackSegment(ret)
        IN  /\ ret.path[1] = ret.edge[1]
            /\ ret.path[Len(ret.path)] = ret.edge[1]
            /\ ret.path[Len(ret.path) - 1] = ret.edge[2]
            /\ Len(ret.path) >= 2
            /\ Len(ret.path) <= k + 1
            /\ DistinctButLast(ret.path)
            /\ Dist(graph, ret.edge[1], ret.edge[2]) = k - 1 => Len(ret.path) = k + 1

C7_Witness ==
    ret.kind = "Some" /\ StackSegment(ret) = 3 /\ Len(ret.path) = 3

\* C8: add_edge(a, b) changes nothing when a -> b is present, and otherwise
\* only adds b to the children of a; every other child set is untouched.
\* Self-edges are accepted like any other edge.
C8_AddEdgeIdempotentLocal ==
    [][op'.name = "add_edge" =>
          /\ op'.dup => graph' = graph
          /\ graph'[op'.a] = graph[op'.a] \cup {op'.b}
          /\ \A v \in Vertices \ {op'.a} : graph'[v] = graph[v]]_vars

C8_Witness ==
    /\ op.name = "add_edge" /\ op.dup /\ op.a = op.b
    /\ Cardinality(graph[op.a]) >= 2

\* C15: a returned path is a shortest directed path from the ancestor a to
\* the current vertex v of the back edge, followed by a: it starts at a, runs
\* along edges to v, has as many edges as the shortest path from a to v, and
\* ends with a.
C15_ShortestPathThenAncestor ==
    ret.kind = "Some" =>
        LET a == ret.edge[1]
            v == ret.edge[2]
            n == Len(ret.path)
        IN  /\ n >= 2
            /\ ret.path[1] = a /\ ret.path[n - 1] = v /\ ret.path[n] = a
            /\ PathInGraph(graph, SubSeq(ret.path, 1, n - 1))
            /\ n - 2 = Dist(graph, a, v)

\* The recursion stack ran from a to v along more edges than the returned
\* path has.
C15_Witness ==
    /\ ret.kind = "Some"
    /\ Dist(graph, ret.edge[1], ret.edge[2]) = 1
    /\ StackSegment(ret) = 3
    /\ Len(ret.path) = 3

\* C17: find_cycle never fails on its unwrap: whenever find_back_edge returns
\* a pair (a, v), under any iteration order, the breadth-first search from a
\* reaches v, and the walk along the predecessors from v ends at a.
C17_UnwrapNeverFails ==
    /\ ret.kind # "Panic"
    /\ (Called /\ ret.edge # NoEdge) =>
           /\ ret.kind = "Some"
           /\ ret.path[1] = ret.edge[1]
           /\ ret.edge[2] \in Range(ret.path)

C17_Witness ==
    /\ ret.kind = "Some"
    /\ ret.edge[1] # ret.edge[2]
    /\ Len(ret.path) = 4

RECURSIVE FinishedStarts(_, _, _, _, _)
\* The keys, from the i-th on, on which find_back_edge's loop invokes
\* dfs_visit although they are in finished at that time.
FinishedStarts(g, ko, co, i, st) ==
    IF i > Len(ko) THEN {}
    ELSE IF SkipStart(st, ko[i]) THEN FinishedStarts(g, ko, co, i + 1, st)
    ELSE LET r == dfs_visit(g, co, ko[i], st)
         IN  (IF ko[i] \in st.finished THEN {ko[i]} ELSE {})
             \cup (IF r.edge # NoEdge THEN {}
                   ELSE FinishedStarts(g, ko, co, i + 1, r))

\* C14 as stated: whatever the iteration order, the loop of find_back_edge
\* never invokes dfs_visit on a key that an earlier start has put in finished.
C14_Original ==
    Called =>
        \A ko \in Perms(Keys(graph)), co \in ChildOrdersOver(graph, Vertices) :
            FinishedStarts(graph, ko, co, 1, DfsInit) = {}

-----------------------------------------------------------------------------
(* Notions the properties of the resolver are stated with.  The storage of *)
(* a run is what the run has read; a document it never read has no part in *)
(* it, whatever it holds.                                                   *)

\* The run has ended: it returned or it panicked.
Terminal == status \notin {"running", "idle"}

\* The documents read, and no read failed.
Readable(d) == fs[d].state = "text"
AllReadable == \A d \in Vertices : fs[d].state # "unreadable"

\* The text has an include directive: the keyword, at least one blank or
\* line break, and a quoted run on one line.
HasDirective(text) ==
    \E i, j, e \in 1..Len(text) :
        /\ i + 1 < j /\ j < e
        /\ text[i] = INC /\ text[j] = QT /\ text[e] = QT
        /\ \A k \in (i + 1)..(j - 1) : text[k] \in {SP, NL}
        /\ \A k \in (j + 1)..(e - 1) : text[k] # NL

\* The document a quoted path names, Nil if it names none.
DocumentNamed(file) ==
    IF \E v \in Vertices : file = <<v>> THEN file[1] ELSE Nil

RECURSIVE DirectivesOf(_)
\* The quoted paths of the directives of a text as written, left to right.
DirectivesOf(text) ==
    LET m == Captures(text)
    IN  IF m = NoMatch THEN <<>>
        ELSE <<m.file>> \o DirectivesOf(SubSeq(text, m.end + 1, Len(text)))

RECURSIVE OutsideDirectives(_)
\* The text as written without its directives.
OutsideDirectives(text) ==
    LET m == Captures(text)
    IN  IF m = NoMatch THEN text
        ELSE SubSeq(text, 1, m.start - 1)
             \o OutsideDirectives(SubSeq(text, m.end + 1, Len(text)))

\* The documents the directives of d name, as d is written.
TargetsOf(d) ==
    IF Readable(d)
    THEN {DocumentNamed(DirectivesOf(fs[d].text)[i]) :
             i \in 1..Len(DirectivesOf(fs[d].text))}
    ELSE {}

\* Every directive as written names a document.
AllResolvable == \A d \in Vertices : Nil \notin TargetsOf(d)

\* The include relation of the documents as written.
IncludeRel == [d \in Vertices |-> TargetsOf(d) \ {Nil}]

\* The include relation reachable from the root has a cycle.
CycleReachable ==
    \E v \in Closure(IncludeRel, {Root}) : v \in Descendants(IncludeRel, v)

\* No document has the keyword or a quote outside its directives, so that
\* no directive can form where a resolved text meets the text around it.
NoStrayDirectiveParts ==
    \A d \in Vertices :
        Readable(d) =>
            \A i \in 1..Len(OutsideDirectives(fs[d].text)) :
                OutsideDirectives(fs[d].text)[i] \notin {INC, QT}

RECURSIVE Flattened(_)
\* The text as written with, in place of each directive, the flattened text
\* of the document it names.
Flattened(text) ==
    LET m == Captures(text)
        t == DocumentNamed(m.file)
    IN  IF m = NoMatch THEN text
        ELSE SubSeq(text, 1, m.start - 1)
             \o (IF t # Nil /\ Readable(t) THEN Flattened(fs[t].text) ELSE <<>>)
             \o Flattened(SubSeq(text, m.end + 1, Len(text)))

\* The number of places of out where the text t occurs.
Occurrences(out, t) ==
    Cardinality({i \in 1..(Len(out) - Len(t) + 1) : SubSeq(out, i, i + Len(t) - 1) = t})

\* A directive line naming t.
Directive(t) == <<INC, SP, QT, t, QT>>

\* A includes B; B includes A.
TwoCycleStorage ==
    /\ fs["A"].text = Directive("B") /\ Readable("A")
    /\ fs["B"].text = Directive("A") /\ Readable("B")

\* A includes B and C; B and C include D; D includes nothing and is not empty.
DiamondStorage ==
    /\ \A d \in Vertices : Readable(d)
    /\ DirectivesOf(fs["A"].text) \in {<<<<"B">>, <<"C">>>>, <<<<"C">>, <<"B">>>>}
    /\ DirectivesOf(fs["B"].text) = <<<<"D">>>>
    /\ DirectivesOf(fs["C"].text) = <<<<"D">>>>
    /\ DirectivesOf(fs["D"].text) = <<>>
    /\ fs["D"].text # <<>>

-----------------------------------------------------------------------------
(* Properties of the resolver, under Spec *)

\* C4 as stated: when every document is readable (and every directive names
\* one) and the include relation reachable from the root has a cycle, the
\* run ends in CircularDependency and returns no text; for A including B
\* and B including A the path is (A, B, A) or (B, A, B).
C4_Original ==
    /\ (Terminal /\ AllReadable /\ AllResolvable /\ CycleReachable)
           => status = "circular"
    /\ (Terminal /\ TwoCycleStorage)
           => (status = "circular" /\ cycle \in {<<"A", "B", "A">>, <<"B", "A", "B">>})

\* C4 amended: the same, provided no document has the include keyword or a
\* double quote outside its directives.
C4_CycleRejected ==
    /\ (Terminal /\ AllReadable /\ AllResolvable /\ NoStrayDirectiveParts
          /\ CycleReachable)
           => status = "circular"
    /\ (Terminal /\ TwoCycleStorage)
           => (status = "circular" /\ cycle \in {<<"A", "B", "A">>, <<"B", "A", "B">>})

C4_Witness ==
    status = "circular" /\ TwoCycleStorage /\ cycle = <<"B", "A", "B">>

\* C5 as stated: when every document is readable (and every directive names
\* one) and the include relation reachable from the root is acyclic, the run
\* returns a text; in the diamond the output holds D's content twice.
C5_Original ==
    /\ (Terminal /\ AllReadable /\ AllResolvable /\ ~CycleReachable)
           => status = "done"
    /\ (Terminal /\ DiamondStorage)
           => (status = "done" /\ Occurrences(output, fs["D"].text) >= 2)

\* C5 amended: the same, provided no document has the include keyword or a
\* double quote outside its directives.
C5_AcyclicResolves ==
    /\ (Terminal /\ AllReadable /\ AllResolvable /\ NoStrayDirectiveParts
          /\ ~CycleReachable)
           => status = "done"
    /\ (Terminal /\ DiamondStorage /\ NoStrayDirectiveParts)
           => (status = "done" /\ Occurrences(output, fs["D"].text) >= 2)

C5_Witness ==
    /\ status = "done" /\ DiamondStorage /\ NoStrayDirectiveParts
    /\ Occurrences(output, <<Letter["D"]>>) = 2

\* C9: a readable root document without a directive is returned unchanged
\* (the empty text for an empty document); no edge is added and no other
\* document is read.
C9_NoDirectiveUnchanged ==
    (Terminal /\ Readable(Root) /\ ~HasDirective(fs[Root].text)) =>
        /\ status = "done"
        /\ output = fs[Root].text
        /\ graph = EmptyGraph
        /\ \A d \in Vertices \ {Root} : fs[d] = Unknown

C9_Witness ==
    /\ status = "done" /\ ~HasDirective(fs[Root].text)
    /\ output = <<Letter[Root], NL, INC>>

\* C10 as stated: a returned text has no directive, and it is the root's
\* text with each directive replaced, in place, by the fully resolved text
\* of its target.
C10_Original ==
    status = "done" => (~HasDirective(output) /\ output = Flattened(fs[Root].text))

\* C10 amended: a returned text has no directive; provided no document has
\* the include keyword or a double quote outside its directives, it is the
\* root's text with each directive replaced, in place, by the fully resolved
\* text of its target.
C10_Substitution ==
    status = "done" =>
        /\ ~HasDirective(output)
        /\ NoStrayDirectiveParts => output = Flattened(fs[Root].text)

C10_Witness ==
    /\ status = "done" /\ NoStrayDirectiveParts
    /\ fs["A"].text = <<Letter["A"], NL>> \o Directive("B")
    /\ fs["B"].text = Directive("C") /\ fs["C"].text = <<Letter["C"]>>
    /\ output = <<Letter["A"], NL, Letter["C"]>>

\* The panics of read_to_string and of canonicalize.
Failures == {"unreadable", "unresolvable"}

\* C11: a read that fails, or a directive whose path names no document, ends
\* the run with that failure in the same step, without adding an edge and
\* without returning a text; after the failure nothing happens any more (no
\* document is read, no edge is added, no text is returned).
C11_AbortOnFailure ==
    [][/\ status \notin Failures
       /\ (call # Nil /\ fs'[call].state = "unreadable") =>
              (status' = "unreadable" /\ graph' = graph /\ frames' = frames)
       /\ (call = Nil /\ frames # <<>> /\ HasDirective(Top.result)
             /\ DocumentNamed(Captures(Top.result).file) = Nil) =>
              (status' = "unresolvable" /\ graph' = graph /\ fs' = fs
                 /\ frames' = frames)
       /\ status' \in Failures => (output' = <<>> /\ call' = Nil)]_vars

C11_Witness ==
    /\ status = "unreadable" /\ fs["B"] = Unreadable
    /\ Len(frames) = 1
    /\ frames[1].result = Directive("B") \o <<NL>> \o Directive("C")
    /\ Edges(graph) = {<<"A", "B">>} /\ fs["C"] = Unknown

\* The documents being resolved on the active call chain, outermost first.
ActiveChain == [k \in 1..Len(frames) |-> frames[k].path]

\* A document is about to be loaded for a directive (not the root).
LoadingTarget == status = "running" /\ call # Nil /\ frames # <<>>

\* C13: when a document is about to be loaded for a directive, the edge from
\* the including document to it is in the graph and find_cycle returns None
\* on that graph, whatever the iteration order; so the document is not on the
\* active call chain, and the chain never holds a document twice.
C13_CheckedBeforeLoad ==
    /\ LoadingTarget =>
          /\ call \in graph[Top.path]
          /\ \A r \in FindCycleResults(graph) : r.kind = "None"
          /\ call \notin Range(ActiveChain)
    /\ \A j, k \in 1..Len(frames) : ActiveChain[j] = ActiveChain[k] => j = k
    /\ \A k \in 1..(Len(frames) - 1) : ActiveChain[k + 1] \in graph[ActiveChain[k]]

C13_Witness ==
    /\ LoadingTarget /\ Len(frames) = 2
    /\ fs[call] # Unknown /\ Cardinality(Edges(graph)) >= 3

\* C16: during a run the graph only grows: it starts empty, no step removes
\* an edge, and a step changes it by at most the edge from the current
\* document to the target of the directive being processed, find_cycle
\* changing nothing.
C16_GraphOnlyGrows ==
    /\ graph = EmptyGraph
    /\ [][/\ \A v \in Vertices : graph[v] \subseteq graph'[v]
          /\ graph' # graph =>
                /\ AtLoopHead /\ Captures(Top.result) # NoMatch
                /\ Edges(graph') = Edges(graph)
                       \cup {<<Top.path, resolve_path(Captures(Top.result).file)>>}]_vars

C16_Witness ==
    /\ status = "done"
    /\ Cardinality(Edges(graph)) >= 3
    /\ \E v \in Vertices : Cardinality(graph[v]) >= 2

\* The edge process_includes adds for the directive at the loop head: from
\* the current document to the target of the directive.
AddedEdge == <<Top.path, resolve_path(Captures(Top.result).file)>>

\* C18: when the run ends with CircularDependency, the reported path holds
\* the edge just added, from the current document to the target of the
\* directive being processed, as a consecutive pair, and the graph without
\* that edge has no cycle.
C18_CycleHoldsAddedEdge ==
    status = "circular" =>
        /\ \E i \in 1..(Len(cycle) - 1) :
               <<cycle[i], cycle[i + 1]>> = AddedEdge
        /\ AddedEdge \in Edges(graph)
        /\ ~HasCycle(WithoutEdge(graph, AddedEdge[1], AddedEdge[2]))

C18_Witness ==
    /\ status = "circular"
    /\ Len(cycle) = 4
    /\ AddedEdge = <<"C", "A">>
    /\ Cardinality(Edges(graph)) = 4

\* The kinds of result find_cycle can return on g, over all iteration orders.
FindCycleKinds(g) == {r.kind : r \in FindCycleResults(g)}

\* C19: the outcome of a run does not depend on the iteration orders.  At
\* every directive whose path resolves, all iteration orders make find_cycle
\* return the same kind of result, so that the run goes on (to the same
\* load) under all of them or ends with CircularDependency at this directive
\* under all of them; the iteration order shows in the reported path only.
C19_OrderIndependent ==
    [][(AtLoopHead /\ Captures(Top.result) # NoMatch /\ AddedEdge[2] # Nil) =>
          LET kinds == FindCycleKinds(graph')
          IN  /\ Cardinality(kinds) = 1
              /\ status' = "circular" <=> kinds = {"Some"}
              /\ status' = "running" <=> kinds = {"None"}
              /\ <<fs', quota', output'>> = <<fs, quota, output>>
              /\ status' = "running" =>
                     /\ cycle' = cycle /\ call' = AddedEdge[2]
                     /\ frames' = [frames EXCEPT ![Len(frames)] =
                                      [@ EXCEPT !.start = Captures(Top.result).start,
                                                !.end = Captures(Top.result).end]]
              /\ status' = "circular" =>
                     /\ frames' = frames /\ call' = call
                     /\ cycle' \in {r.path : r \in FindCycleResults(graph')}]_vars

\* A run ended with CircularDependency at a directive where the iteration
\* orders report different paths.
C19_Witness ==
    /\ status = "circular"
    /\ Cardinality({r.path : r \in FindCycleResults(graph)}) >= 2
    /\ FindCycleKinds(graph) = {"Some"}

-----------------------------------------------------------------------------
(* Termination of the resolver, under SpecLive *)

\* C12 as stated: every run of the resolver ends, with a text or a failure,
\* whatever the documents hold.
C12_Original == <>Terminal

====
